---- MODULE Spec2Model ----
(***************************************************************************)
(* A model of the lattice-path engine of proliferatr: Point, Bound2D,      *)
(* Path / ClosedPath, and the mutators PathCondenser, PathScaler and       *)
(* UnitSegmentAdder.  Indices are the code's 0-based indices; Get and      *)
(* friends translate them to TLA+ sequences.  Coordinates are i64 in the   *)
(* code; every coordinate reached here is far from the i64 limits, so      *)
(* they are plain integers.                                                *)
(***************************************************************************)
EXTENDS Integers, Sequences, FiniteSets, TLC

VARIABLES
    pc,             \* position of the caller: "new", "building", "idle", "failed",
                    \* "pass", "edge", "panicked"
    ctor,           \* how the path was constructed: "rect_path", "from_iter" or "none"
    result,         \* what the constructor returned: "Ok", "InvalidDimension" or "none"
    path,           \* the points of the Path / ClosedPath (VecDeque<Point>)
    start,          \* history: the path as it was first constructed
    prev,           \* history: the path before the last completed call
    op,             \* history: name of the last completed call
    ret,            \* the value the last mutate call returned (FALSE before any call)
    ops,            \* number of completed mutate calls
    width, height,  \* arguments of the last rect_path call
    limit,          \* PathCondenser.limit
    builder,        \* PathScalerBuilder { x_factor, y_factor : Option<i64> }
    build_result,   \* what PathScalerBuilder::build returned: "Ok", "Err" or "none"
    scaler,         \* the PathScaler in use, or None
    bounds,         \* UnitSegmentAdder.bounds : Option<Bound2D>
    passes,         \* UnitSegmentAdder.passes
    attempt,        \* UnitSegmentAdder.attempt, in percent
    plus_bias,      \* UnitSegmentAdder.plus_bias, in percent
    avoid,          \* UnitSegmentAdder.avoid : FxHashSet<Point>
    registered,     \* history: points given to insert_avoided, while not on the
                    \* path, since the last clear
    pass,           \* mutate: the pass being made (0-based)
    idx,            \* mutate: the edge index i of the inner loop
    any_mutations,  \* mutate: the local any_mutations
    outcome,        \* history: what the last edge visit did
    cand,           \* history: the shifted points (p1, p2) of the last edge visit
    accepted,       \* history: bumps accepted so far in the current mutate call
    pass_path,      \* history: the path as it was when the current pass began
    visited,        \* history: the edges (i, p1, p2) read so far in the current pass
    asked,          \* history: points of the paths handed to mutate since the last clear
    foreign,        \* history: points of earlier paths this adder mutated
    switches,       \* history: how often the caller moved the adder to another path
    unit_only,      \* history: every path handed to mutate so far was a unit path
    arg,            \* history: argument of the last reflect / translate call
    prev_arg,       \* history: argument of the reflect / translate call before it
    prev_op,        \* history: name of the reflect / translate call before the last
    prev2,          \* history: the path before the call before the last
    pt_a, pt_b,     \* the points self and other of a cardinal_to call
    cardinal,       \* what cardinal_to returned
    called,         \* whether cardinal_to has been called
    grid,           \* Grid<T> { cells, width, height }
    g_op,           \* Grid: the last call, "set", "get" or "none"
    g_point,        \* Grid: the point of the last call
    g_ret,          \* Grid: what the last call returned, or "panic"
    g_prev          \* history: Grid.cells before the last call

pathVars == <<ctor, result, path, start, width, height>>

callVars == <<prev, op, ret, ops>>

scalerVars == <<builder, build_result, scaler>>

adderVars == <<bounds, passes, attempt, plus_bias, avoid, registered>>

loopVars == <<pass, idx, any_mutations, outcome, cand>>

histVars == <<accepted, pass_path, visited, asked, foreign, switches, unit_only>>

xformVars == <<arg, prev_arg, prev_op, prev2>>

pointVars == <<pt_a, pt_b, cardinal, called>>

gridVars == <<grid, g_op, g_point, g_ret, g_prev>>

vars == <<pc, pathVars, callVars, limit, scalerVars, adderVars, loopVars,
          histVars, xformVars, pointVars, gridVars>>

\* Option<T>: None is the empty sequence, Some(v) the sequence of v
None == <<>>

Some(v) == <<v>>

IsSome(o) == o # None

Unwrap(o) == o[1]

----------------------------------------------------------------------------
(* Bounds of the model *)

\* rect_path is tried for every width and height in 0..MaxDim
MaxDim == 15
\* paths built point by point have at most MaxSeqLen points
MaxSeqLen == 5
\* PathCondenser.limit ranges over 0..MaxLimit
MaxLimit == 2
\* at most MaxOps mutate calls are made on one path
MaxOps == 3
\* paths handed to the scaler have at most MaxScaleLen points
MaxScaleLen == 4
\* the factors given to the PathScalerBuilder range over -1..MaxFactor
MaxFactor == 3
\* UnitSegmentAdder.passes ranges over 0..MaxPasses
MaxPasses == 2
\* an adder without bounds is run only while the path cannot outgrow MaxPathLen
MaxPathLen == 13
\* at most MaxAdderCalls UnitSegmentAdder mutate calls are made on one path
MaxAdderCalls == 2
\* the pass count of the long run inside a rectangle's own bounding box
ScenarioPasses == 100

----------------------------------------------------------------------------
(* Point *)

Pt(px, py) == [x |-> px, y |-> py]

Origin == Pt(0, 0)

PointAdd(p, d) == Pt(p.x + d.x, p.y + d.y)

\* a cardinal_to that answers only for points one unit apart
CardinalTo_mut(p, q) ==
    IF (p.x - q.x) * (p.x - q.x) + (p.y - q.y) * (p.y - q.y) # 1 THEN None
    ELSE IF p.x = q.x THEN (IF p.y < q.y THEN Some("North") ELSE Some("South"))
    ELSE (IF p.x < q.x THEN Some("East") ELSE Some("West"))

\* a cardinal_to without the test for equal y: diagonals count as east / west
CardinalTo_mutDiag(p, q) ==
    IF p = q THEN None
    ELSE IF p.x = q.x THEN (IF p.y < q.y THEN Some("North") ELSE Some("South"))
    ELSE (IF p.x < q.x THEN Some("East") ELSE Some("West"))

\* Point::cardinal_to: the direction from p to q, decided by the signs only
CardinalTo(p, q) ==
    IF p = q THEN None
    ELSE IF p.x = q.x THEN (IF p.y < q.y THEN Some("North") ELSE Some("South"))
    ELSE IF p.y = q.y THEN (IF p.x < q.x THEN Some("East") ELSE Some("West"))
    ELSE None

Abs(n) == IF n < 0 THEN -n ELSE n

ManhattanDistance(p, q) == Abs(p.x - q.x) + Abs(p.y - q.y)

----------------------------------------------------------------------------
(* PointPath: VecDeque operations with the code's 0-based indices *)

PathLen(s) == Len(s)

Get(s, i) == s[i + 1]

\* VecDeque::insert(i, p): p ends up at index i
Insert(s, i, p) == SubSeq(s, 1, i) \o <<p>> \o SubSeq(s, i + 1, Len(s))

\* VecDeque::remove(i)
Remove(s, i) == SubSeq(s, 1, i) \o SubSeq(s, i + 2, Len(s))

Points(s) == {s[k] : k \in 1..Len(s)}

----------------------------------------------------------------------------
(* ClosedPath::rect_path *)

\* Walk with the loop written `for _ in 0..n`: one step too many
RECURSIVE Walk_mut(_, _, _)
Walk_mut(cur, d, n) ==
    IF n <= 0 THEN <<>>
    ELSE LET nxt == PointAdd(cur, d) IN <<nxt>> \o Walk_mut(nxt, d, n - 1)

\* one of the four `for _ in 1..n` loops: n - 1 steps of d from cur, pushing each
RECURSIVE Walk(_, _, _)
Walk(cur, d, n) ==
    IF n <= 1 THEN <<>>
    ELSE LET nxt == PointAdd(cur, d) IN <<nxt>> \o Walk(nxt, d, n - 1)

Last(s) == s[Len(s)]

EndOf(cur, s) == IF s = <<>> THEN cur ELSE Last(s)

\* the guard as the doc comment words it ("must each be greater than one")
InvalidDimension_mut(w, h) == w <= 1 \/ h <= 1

\* the guard of rect_path: TRUE when it returns Err(InvalidDimension)
InvalidDimension(w, h) == w < 1 \/ h < 1

RectPoints(w, h) ==
    LET up    == Walk(Origin, Pt(0, 1), h)
        c1    == EndOf(Origin, up)
        right == Walk(c1, Pt(1, 0), w)
        c2    == EndOf(c1, right)
        down  == Walk(c2, Pt(0, -1), h)
        c3    == EndOf(c2, down)
        left  == Walk(c3, Pt(-1, 0), w)
    IN <<Origin>> \o up \o right \o down \o left

----------------------------------------------------------------------------
(* PathCondenser *)

\* RemovableAt that also asks the neighbours to be one unit away
RemovableAt_mut(s, i) ==
    LET d1 == CardinalTo(Get(s, i - 1), Get(s, i))
        d2 == CardinalTo(Get(s, i), Get(s, i + 1))
    IN /\ IsSome(d1) /\ IsSome(d2) /\ d1 = d2
       /\ ManhattanDistance(Get(s, i - 1), Get(s, i)) = 1
       /\ ManhattanDistance(Get(s, i), Get(s, i + 1)) = 1

\* the test of the window (i-1, i, i+1): both directions exist and are equal
RemovableAt(s, i) ==
    LET d1 == CardinalTo(Get(s, i - 1), Get(s, i))
        d2 == CardinalTo(Get(s, i), Get(s, i + 1))
    IN IsSome(d1) /\ IsSome(d2) /\ d1 = d2

\* CondenseLoop without the `continue`: the index advances after a removal
RECURSIVE CondenseLoop_mut(_, _, _, _)
CondenseLoop_mut(s, st, removals, lim) ==
    IF (lim = 0 \/ removals < lim) /\ st < Len(s) - 1
    THEN IF RemovableAt(s, st)
         THEN CondenseLoop_mut(Remove(s, st), st + 1, removals + 1, lim)
         ELSE CondenseLoop_mut(s, st + 1, removals, lim)
    ELSE [points |-> s, removals |-> removals]

\* the while loop of mutate; `len` of the code is always Len(s)
RECURSIVE CondenseLoop(_, _, _, _)
CondenseLoop(s, st, removals, lim) ==
    IF (lim = 0 \/ removals < lim) /\ st < Len(s) - 1
    THEN IF RemovableAt(s, st)
         THEN CondenseLoop(Remove(s, st), st, removals + 1, lim)
         ELSE CondenseLoop(s, st + 1, removals, lim)
    ELSE [points |-> s, removals |-> removals]

CondenserMutate(s, lim) ==
    IF Len(s) < 3 THEN [points |-> s, ret |-> FALSE]
    ELSE LET r == CondenseLoop(s, 1, 0, lim)
         IN [points |-> r.points, ret |-> r.removals > 0]

\* a first_candidate that returns the first index of the window
RECURSIVE FirstCandidate_mut(_, _)
FirstCandidate_mut(st, s) ==
    IF st + 2 >= Len(s) THEN None
    ELSE IF RemovableAt(s, st + 1) THEN Some(st)
    ELSE FirstCandidate_mut(st + 1, s)

\* PathCondenser::first_candidate(start, path): windows (i1,i2,i3) from st
RECURSIVE FirstCandidate(_, _)
FirstCandidate(st, s) ==
    IF st + 2 >= Len(s) THEN None
    ELSE IF RemovableAt(s, st + 1) THEN Some(st + 1)
    ELSE FirstCandidate(st + 1, s)

----------------------------------------------------------------------------
(* PathScaler and its derive_builder builder *)

\* PathScalerBuilder::default(): no field set
EmptyBuilder == [x_factor |-> None, y_factor |-> None]

\* validate with the comparison `< 0`: a factor of 0 passes
Validate_mut(b) ==
    /\ ~(IsSome(b.x_factor) /\ Unwrap(b.x_factor) < 0)
    /\ ~(IsSome(b.y_factor) /\ Unwrap(b.y_factor) < 0)

\* PathScalerBuilder::validate: TRUE when it returns Ok(())
Validate(b) ==
    /\ ~(IsSome(b.x_factor) /\ Unwrap(b.x_factor) < 1)
    /\ ~(IsSome(b.y_factor) /\ Unwrap(b.y_factor) < 1)

\* the generated build(): validate, then unset fields take #[builder(default = "1")]
BuildScaler(b) ==
    IF Validate(b)
    THEN Some([x_factor |-> IF IsSome(b.x_factor) THEN Unwrap(b.x_factor) ELSE 1,
               y_factor |-> IF IsSome(b.y_factor) THEN Unwrap(b.y_factor) ELSE 1])
    ELSE None

\* impl Default for PathScaler
DefaultScaler == [x_factor |-> 1, y_factor |-> 1]

\* mutate with y scaled by x_factor
ScalerMutate_mutY(s, sc) ==
    IF sc.x_factor = 1 /\ sc.y_factor = 1
    THEN [points |-> s, ret |-> FALSE]
    ELSE [points |-> [k \in 1..Len(s) |->
                        Pt(s[k].x * sc.x_factor, s[k].y * sc.x_factor)],
          ret |-> TRUE]

\* mutate breaking early as soon as one factor is 1
ScalerMutate_mutOr(s, sc) ==
    IF sc.x_factor = 1 \/ sc.y_factor = 1
    THEN [points |-> s, ret |-> FALSE]
    ELSE [points |-> [k \in 1..Len(s) |->
                        Pt(s[k].x * sc.x_factor, s[k].y * sc.y_factor)],
          ret |-> TRUE]

\* PathScaler::mutate: the early return, then the loop over points_mut()
ScalerMutate(s, sc) ==
    IF sc.x_factor = 1 /\ sc.y_factor = 1
    THEN [points |-> s, ret |-> FALSE]
    ELSE [points |-> [k \in 1..Len(s) |->
                        Pt(s[k].x * sc.x_factor, s[k].y * sc.y_factor)],
          ret |-> TRUE]

----------------------------------------------------------------------------
(* The caller: constructing a path *)

\* the points from which Path::from_iter paths are drawn
SeqPointSet == {Pt(0, 0), Pt(1, 0), Pt(2, 0), Pt(3, 0), Pt(0, 1), Pt(0, 2)}

RECURSIVE SeqsUpTo(_, _)
SeqsUpTo(S, n) ==
    IF n = 0 THEN {<<>>}
    ELSE LET shorter == SeqsUpTo(S, n - 1)
         IN shorter \cup {Append(s, p) : s \in {t \in shorter : Len(t) = n - 1}, p \in S}

SeqPaths == SeqsUpTo(SeqPointSet, MaxSeqLen)

\* ClosedPath::rect_path(w, h)
RectPath ==
    /\ pc = "new"
    /\ \E w \in 0..MaxDim, h \in 0..MaxDim :
        /\ width' = w
        /\ height' = h
        /\ ctor' = "rect_path"
        /\ IF InvalidDimension(w, h)
           THEN /\ result' = "InvalidDimension"
                /\ pc' = "failed"
                /\ UNCHANGED <<path, start>>
           ELSE LET raw == RectPoints(w, h) IN
                /\ path' = raw
                /\ start' = raw
                \* assert_eq!(raw[0], raw[raw.len() - 1])
                /\ IF raw[1] = Last(raw)
                   THEN result' = "Ok" /\ pc' = "idle"
                   ELSE result' = "none" /\ pc' = "panicked"
    /\ UNCHANGED <<callVars, limit, scalerVars, adderVars, loopVars>>
    /\ UNCHANGED <<histVars, xformVars, pointVars, gridVars>>

\* Path::from_iter(points)
FromIter ==
    /\ pc = "new"
    /\ \E s \in SeqPaths :
        /\ path' = s
        /\ start' = s
    /\ ctor' = "from_iter"
    /\ result' = "Ok"
    /\ pc' = "idle"
    /\ UNCHANGED <<width, height, callVars, limit, scalerVars, adderVars, loopVars>>
    /\ UNCHANGED <<histVars, xformVars, pointVars, gridVars>>

----------------------------------------------------------------------------
(* The caller: PathCondenser::mutate(&mut path) *)

Condense ==
    /\ pc = "idle"
    /\ ops < MaxOps
    /\ LET r == CondenserMutate(path, limit) IN
        /\ path' = r.points
        /\ ret' = r.ret
    /\ prev' = path
    /\ op' = "condense"
    /\ ops' = ops + 1
    /\ UNCHANGED <<pc, ctor, result, start, width, height, limit, scalerVars,
                   adderVars, loopVars>>
    /\ UNCHANGED <<histVars, xformVars, pointVars, gridVars>>

\* no call of the Grid yet
NoCall == [kind |-> "none", value |-> ""]

\* a Grid that is not in use
NoGrid == [width |-> 0, height |-> 0, cells |-> <<>>]

\* the parts of the state a specification does not use
InitOther ==
    /\ accepted = 0 /\ pass_path = <<>> /\ visited = <<>>
    /\ asked = {} /\ foreign = {} /\ switches = 0 /\ unit_only = TRUE
    /\ arg = "none" /\ prev_arg = "none" /\ prev_op = "none" /\ prev2 = <<>>
    /\ pt_a = Origin /\ pt_b = Origin /\ cardinal = None /\ called = FALSE
    /\ grid = NoGrid /\ g_op = "none" /\ g_point = Origin /\ g_ret = NoCall
    /\ g_prev = <<>>

InitCommon ==
    /\ pc = "new"
    /\ ctor = "none" /\ result = "none"
    /\ path = <<>> /\ start = <<>>
    /\ width = 0 /\ height = 0
    /\ prev = <<>> /\ op = "none" /\ ret = FALSE /\ ops = 0
    /\ builder = EmptyBuilder /\ build_result = "none" /\ scaler = None
    /\ bounds = None /\ passes = 0 /\ attempt = 0 /\ plus_bias = 0
    /\ avoid = {} /\ registered = {}
    /\ pass = 0 /\ idx = 0 /\ any_mutations = FALSE
    /\ outcome = "none" /\ cand = <<>>
    /\ InitOther

\* a PathCondenser built with some limit, a path still to be constructed
InitCondenser ==
    /\ InitCommon
    /\ limit \in 0..MaxLimit

NextCondenser == RectPath \/ FromIter \/ Condense

SpecCondenser == InitCondenser /\ [][NextCondenser]_vars

----------------------------------------------------------------------------
(* Bound2D *)

\* stands for i64::MAX, which derive_from only compares against
I64Max == 2147483647

I64Min == -I64Max - 1

RECURSIVE DeriveFold(_, _, _)
DeriveFold(s, k, b) ==
    IF k > Len(s) THEN b
    ELSE LET p == s[k] IN
         DeriveFold(s, k + 1,
            [min_x |-> IF p.x < b.min_x THEN p.x ELSE b.min_x,
             max_x |-> IF p.x > b.max_x THEN p.x ELSE b.max_x,
             min_y |-> IF p.y < b.min_y THEN p.y ELSE b.min_y,
             max_y |-> IF p.y > b.max_y THEN p.y ELSE b.max_y])

\* Bound2D::derive_from(iter)
DeriveFrom(s) ==
    DeriveFold(s, 1, [min_x |-> I64Max, max_x |-> I64Min,
                      min_y |-> I64Max, max_y |-> I64Min])

\* Contains without the test against max_y
Contains_mut(b, p) ==
    b.min_x <= p.x /\ p.x <= b.max_x /\ b.min_y <= p.y

\* Bound2D::contains
Contains(b, p) ==
    b.min_x <= p.x /\ p.x <= b.max_x /\ b.min_y <= p.y /\ p.y <= b.max_y

----------------------------------------------------------------------------
(* UnitSegmentAdder *)

\* Rng::gen_bool(p): the outcomes a roll with probability p percent can have
GenBool(p) == IF p = 0 THEN {FALSE} ELSE IF p = 100 THEN {TRUE} ELSE BOOLEAN

\* a match on dir with the arms exchanged: the shift runs along the edge
Shift_mut(p, dir, plus) ==
    LET d == IF plus THEN 1 ELSE -1 IN
    IF dir \in {"East", "West"} THEN Pt(p.x + d, p.y) ELSE Pt(p.x, p.y + d)

\* the match on dir: an east/west edge moves in y, a north/south edge in x
Shift(p, dir, plus) ==
    LET d == IF plus THEN 1 ELSE -1 IN
    IF dir \in {"East", "West"} THEN Pt(p.x, p.y + d) ELSE Pt(p.x + d, p.y)

\* `!bounds.contains(&p1) || !bounds.contains(&p2)` when bounds are set
OutOfBounds(b, s1, s2) ==
    IsSome(b) /\ (~Contains(Unwrap(b), s1) \/ ~Contains(Unwrap(b), s2))

\* the avoid test looking at p1 only
AvoidFree_mut(av, s1, s2) == s1 \notin av

\* `!self.avoid.contains(&p1) && !self.avoid.contains(&p2)`
AvoidFree(av, s1, s2) == s1 \notin av /\ s2 \notin av

\* the two inserts in the order p1 then p2, both at i + 1
Splice_mut(s, i, s1, s2) == Insert(Insert(s, i + 1, s1), i + 1, s2)

\* the two inserts at i, in front of the edge's first point
Splice_mutAt(s, i, s1, s2) == Insert(Insert(s, i, s2), i, s1)

\* path.insert(i + 1, p2); path.insert(i + 1, p1)
Splice(s, i, s1, s2) == Insert(Insert(s, i + 1, s2), i + 1, s1)

\* the longest path k passes can make of n points: every edge gains two
RECURSIVE WorstLen(_, _)
WorstLen(n, k) ==
    IF k = 0 \/ n < 2 \/ n > MaxPathLen THEN n ELSE WorstLen(3 * n - 2, k - 1)

\* UnitSegmentAdder::insert_avoided(point)
InsertAvoided(p) ==
    /\ pc = "idle"
    /\ avoid' = avoid \cup {p}
    /\ registered' = IF p \in Points(path) THEN registered ELSE registered \cup {p}
    /\ UNCHANGED <<pc, pathVars, callVars, limit, scalerVars, bounds, passes,
                   attempt, plus_bias, loopVars>>
    /\ UNCHANGED <<accepted, pass_path, visited, asked, foreign, switches, unit_only>>
    /\ UNCHANGED <<xformVars, pointVars, gridVars>>

\* UnitSegmentAdder::clear_avoided()
ClearAvoided ==
    /\ pc = "idle"
    /\ avoid' = {}
    /\ registered' = {}
    /\ asked' = {} /\ foreign' = {}
    /\ UNCHANGED <<pc, pathVars, callVars, limit, scalerVars, bounds, passes,
                   attempt, plus_bias, loopVars>>
    /\ UNCHANGED <<accepted, pass_path, visited, switches, unit_only>>
    /\ UNCHANGED <<xformVars, pointVars, gridVars>>

\* a mutate that replaces the avoid cache by the path instead of extending it
MutateBegin_mut ==
    /\ pc = "idle"
    /\ ops < MaxAdderCalls
    /\ IF IsSome(bounds) THEN TRUE ELSE WorstLen(Len(path), passes) <= MaxPathLen
    /\ avoid' = Points(path)
    /\ any_mutations' = FALSE
    /\ pass' = 0
    /\ prev' = path
    /\ pc' = "pass"
    /\ accepted' = 0
    /\ asked' = asked \cup Points(path)
    /\ UNCHANGED <<pathVars, op, ret, ops, limit, scalerVars, bounds, passes,
                   attempt, plus_bias, registered, idx, outcome, cand>>
    /\ UNCHANGED <<pass_path, visited, foreign, switches>>
    /\ unit_only' = (unit_only /\ \A k \in 1..(Len(path) - 1) :
                                      ManhattanDistance(path[k], path[k + 1]) = 1)
    /\ UNCHANGED <<xformVars, pointVars, gridVars>>

\* a mutate that leaves the avoid cache as it found it
MutateBegin_mutKeep ==
    /\ pc = "idle"
    /\ ops < MaxAdderCalls
    /\ IF IsSome(bounds) THEN TRUE ELSE WorstLen(Len(path), passes) <= MaxPathLen
    /\ avoid' = avoid
    /\ any_mutations' = FALSE
    /\ pass' = 0
    /\ prev' = path
    /\ pc' = "pass"
    /\ accepted' = 0
    /\ asked' = asked \cup Points(path)
    /\ UNCHANGED <<pathVars, op, ret, ops, limit, scalerVars, bounds, passes,
                   attempt, plus_bias, registered, idx, outcome, cand>>
    /\ UNCHANGED <<pass_path, visited, foreign, switches>>
    /\ unit_only' = (unit_only /\ \A k \in 1..(Len(path) - 1) :
                                      ManhattanDistance(path[k], path[k + 1]) = 1)
    /\ UNCHANGED <<xformVars, pointVars, gridVars>>

\* mutate, entry: extend the avoid cache with the path, any_mutations = false
MutateBegin ==
    /\ pc = "idle"
    /\ ops < MaxAdderCalls
    /\ IF IsSome(bounds) THEN TRUE ELSE WorstLen(Len(path), passes) <= MaxPathLen
    /\ avoid' = avoid \cup Points(path)
    /\ any_mutations' = FALSE
    /\ pass' = 0
    /\ prev' = path
    /\ pc' = "pass"
    /\ accepted' = 0
    /\ asked' = asked \cup Points(path)
    /\ UNCHANGED <<pathVars, op, ret, ops, limit, scalerVars, bounds, passes,
                   attempt, plus_bias, registered, idx, outcome, cand>>
    /\ UNCHANGED <<pass_path, visited, foreign, switches>>
    /\ unit_only' = (unit_only /\ \A k \in 1..(Len(path) - 1) :
                                      ManhattanDistance(path[k], path[k + 1]) = 1)
    /\ UNCHANGED <<xformVars, pointVars, gridVars>>

\* `for _ in 0..self.passes`, and the range (0..(path.len() - 1)).rev() of a pass
PassBegin ==
    /\ pc = "pass"
    /\ pass < passes
    /\ IF Len(path) = 0
       THEN \* 0usize - 1: an overflow panic, or usize::MAX and get(i).unwrap() panics
            /\ pc' = "panicked"
            /\ UNCHANGED <<pass, idx>>
       ELSE IF Len(path) = 1
       THEN /\ pass' = pass + 1
            /\ UNCHANGED <<pc, idx>>
       ELSE /\ idx' = Len(path) - 2
            /\ pc' = "edge"
            /\ UNCHANGED pass
    /\ pass_path' = path
    /\ visited' = <<>>
    /\ UNCHANGED <<pathVars, callVars, limit, scalerVars, adderVars,
                   any_mutations, outcome, cand>>
    /\ UNCHANGED <<accepted, asked, foreign, switches, unit_only>>
    /\ UNCHANGED <<xformVars, pointVars, gridVars>>

\* `let p1 = *path.get(i).unwrap(); let p2 = *path.get(i + 1).unwrap();`
Edge(s, i) == [i |-> i, p1 |-> Get(s, i), p2 |-> Get(s, i + 1)]

\* the end of the inner loop body: the next lower index, or the next pass
Advance ==
    IF idx = 0
    THEN pass' = pass + 1 /\ pc' = "pass" /\ UNCHANGED idx
    ELSE idx' = idx - 1 /\ UNCHANGED <<pc, pass>>

\* gen_bool(attempt) is false
EdgeNotAttempted ==
    /\ pc = "edge"
    /\ FALSE \in GenBool(attempt)
    /\ outcome' = "not_attempted"
    /\ cand' = <<>>
    /\ Advance
    /\ visited' = Append(visited, Edge(path, idx))
    /\ UNCHANGED <<pathVars, callVars, limit, scalerVars, adderVars, any_mutations>>
    /\ UNCHANGED <<accepted, pass_path, asked, foreign, switches, unit_only>>
    /\ UNCHANGED <<xformVars, pointVars, gridVars>>

\* p1.cardinal_to(&p2) is None
EdgeNotCardinal ==
    /\ pc = "edge"
    /\ TRUE \in GenBool(attempt)
    /\ CardinalTo(Get(path, idx), Get(path, idx + 1)) = None
    /\ outcome' = "not_cardinal"
    /\ cand' = <<>>
    /\ Advance
    /\ visited' = Append(visited, Edge(path, idx))
    /\ UNCHANGED <<pathVars, callVars, limit, scalerVars, adderVars, any_mutations>>
    /\ UNCHANGED <<accepted, pass_path, asked, foreign, switches, unit_only>>
    /\ UNCHANGED <<xformVars, pointVars, gridVars>>

\* a shifted point is outside the bounds: continue
EdgeOutOfBounds ==
    /\ pc = "edge"
    /\ TRUE \in GenBool(attempt)
    /\ LET dir == CardinalTo(Get(path, idx), Get(path, idx + 1)) IN
        /\ IsSome(dir)
        /\ \E plus \in GenBool(plus_bias) :
            LET s1 == Shift(Get(path, idx), Unwrap(dir), plus)
                s2 == Shift(Get(path, idx + 1), Unwrap(dir), plus)
            IN /\ OutOfBounds(bounds, s1, s2)
               /\ cand' = <<s1, s2>>
    /\ outcome' = "out_of_bounds"
    /\ Advance
    /\ visited' = Append(visited, Edge(path, idx))
    /\ UNCHANGED <<pathVars, callVars, limit, scalerVars, adderVars, any_mutations>>
    /\ UNCHANGED <<accepted, pass_path, asked, foreign, switches, unit_only>>
    /\ UNCHANGED <<xformVars, pointVars, gridVars>>

\* a shifted point is in the avoid set: nothing is done
EdgeAvoided ==
    /\ pc = "edge"
    /\ TRUE \in GenBool(attempt)
    /\ LET dir == CardinalTo(Get(path, idx), Get(path, idx + 1)) IN
        /\ IsSome(dir)
        /\ \E plus \in GenBool(plus_bias) :
            LET s1 == Shift(Get(path, idx), Unwrap(dir), plus)
                s2 == Shift(Get(path, idx + 1), Unwrap(dir), plus)
            IN /\ ~OutOfBounds(bounds, s1, s2)
               /\ ~AvoidFree(avoid, s1, s2)
               /\ cand' = <<s1, s2>>
    /\ outcome' = "avoided"
    /\ Advance
    /\ visited' = Append(visited, Edge(path, idx))
    /\ UNCHANGED <<pathVars, callVars, limit, scalerVars, adderVars, any_mutations>>
    /\ UNCHANGED <<accepted, pass_path, asked, foreign, switches, unit_only>>
    /\ UNCHANGED <<xformVars, pointVars, gridVars>>

\* both shifted points are free: they enter the avoid set and the path
EdgeAccept ==
    /\ pc = "edge"
    /\ TRUE \in GenBool(attempt)
    /\ LET dir == CardinalTo(Get(path, idx), Get(path, idx + 1)) IN
        /\ IsSome(dir)
        /\ \E plus \in GenBool(plus_bias) :
            LET s1 == Shift(Get(path, idx), Unwrap(dir), plus)
                s2 == Shift(Get(path, idx + 1), Unwrap(dir), plus)
            IN /\ ~OutOfBounds(bounds, s1, s2)
               /\ AvoidFree(avoid, s1, s2)
               /\ avoid' = avoid \cup {s1, s2}
               /\ path' = Splice(path, idx, s1, s2)
               /\ cand' = <<s1, s2>>
    /\ any_mutations' = TRUE
    /\ outcome' = "accepted"
    /\ Advance
    /\ visited' = Append(visited, Edge(path, idx))
    /\ accepted' = accepted + 1
    /\ UNCHANGED <<ctor, result, start, width, height, callVars, limit,
                   scalerVars, bounds, passes, attempt, plus_bias, registered>>
    /\ UNCHANGED <<pass_path, asked, foreign, switches, unit_only>>
    /\ UNCHANGED <<xformVars, pointVars, gridVars>>

\* a mutate that reports a change whenever it made a pass
MutateReturn_mut ==
    /\ pc = "pass"
    /\ pass >= passes
    /\ ret' = (passes > 0)
    /\ op' = "add"
    /\ ops' = ops + 1
    /\ pc' = "idle"
    /\ UNCHANGED <<pathVars, prev, limit, scalerVars, adderVars, loopVars>>
    /\ UNCHANGED <<histVars, xformVars, pointVars, gridVars>>

\* mutate, exit: all passes made, any_mutations is returned
MutateReturn ==
    /\ pc = "pass"
    /\ pass >= passes
    /\ ret' = any_mutations
    /\ op' = "add"
    /\ ops' = ops + 1
    /\ pc' = "idle"
    /\ UNCHANGED <<pathVars, prev, limit, scalerVars, adderVars, loopVars>>
    /\ UNCHANGED <<histVars, xformVars, pointVars, gridVars>>

\* the paths handed to the adder: empty, a single point, unit paths, the doc
\* example, rectangles, and paths with a long, a diagonal or a repeated step
AdderPaths ==
    { <<>>,
      <<Pt(0, 0)>>,
      <<Pt(0, 0), Pt(1, 0)>>,
      <<Pt(0, 0), Pt(1, 0), Pt(2, 0), Pt(2, 1)>>,
      RectPoints(2, 2),
      RectPoints(2, 3),
      RectPoints(4, 3),
      <<Pt(0, 0), Pt(2, 0)>>,
      <<Pt(0, 0), Pt(1, 1), Pt(1, 2)>>,
      RectPoints(1, 2) }

\* the bounds a caller may configure for path s
BoundChoices(s) ==
    { None,
      Some(DeriveFrom(s)),
      Some([min_x |-> 0, max_x |-> 1, min_y |-> 0, max_y |-> 1]),
      Some([min_x |-> 0, max_x |-> 2, min_y |-> -1, max_y |-> 1]) }

\* probabilities, in percent, for attempt and plus_bias
Probabilities == {0, 50, 100}

\* the points a caller may mark as avoided
AvoidCandidates == {Pt(1, 1), Pt(0, -1)}

\* a path and a UnitSegmentAdder built for it
InitAdder ==
    /\ pc = "idle"
    /\ ctor = "from_iter" /\ result = "Ok"
    /\ path \in AdderPaths /\ start = path
    /\ width = 0 /\ height = 0
    /\ prev = <<>> /\ op = "none" /\ ret = FALSE /\ ops = 0
    /\ limit = 0
    /\ builder = EmptyBuilder /\ build_result = "none" /\ scaler = None
    /\ bounds \in BoundChoices(path)
    /\ attempt \in Probabilities
    /\ plus_bias \in Probabilities
    /\ \/ passes \in 0..MaxPasses
       \/ /\ passes = ScenarioPasses
          /\ path = RectPoints(2, 3)
          /\ bounds = Some(DeriveFrom(path))
          /\ attempt = 100
    /\ avoid = {} /\ registered = {}
    /\ pass = 0 /\ idx = 0 /\ any_mutations = FALSE
    /\ outcome = "none" /\ cand = <<>>
    /\ InitOther

NextAdder ==
    \/ \E p \in AvoidCandidates : InsertAvoided(p)
    \/ ClearAvoided
    \/ MutateBegin
    \/ PassBegin
    \/ EdgeNotAttempted
    \/ EdgeNotCardinal
    \/ EdgeOutOfBounds
    \/ EdgeAvoided
    \/ EdgeAccept
    \/ MutateReturn

SpecAdder == InitAdder /\ [][NextAdder]_vars

----------------------------------------------------------------------------
(* Properties of rect_path and PathCondenser, checked under SpecCondenser *)

\* p and q are exactly one unit apart along exactly one axis
IsUnitStep(p, q) ==
    \/ p.x = q.x /\ Abs(p.y - q.y) = 1
    \/ p.y = q.y /\ Abs(p.x - q.x) = 1

IsUnitPath(s) == \A k \in 1..(Len(s) - 1) : IsUnitStep(s[k], s[k + 1])

C6_IdempotentAnyLimit ==
    (op = "condense" /\ ops >= 2) => (path = prev /\ ret = FALSE)

\* C6 amended: with no limit (limit = 0), a second PathCondenser mutate in
\* succession leaves the points of the first and returns false.
C6_IdempotentNoLimit ==
    (op = "condense" /\ ops >= 2 /\ limit = 0) => (path = prev /\ ret = FALSE)

C6_Witness ==
    /\ op = "condense" /\ ops = 2 /\ limit = 0
    /\ ctor = "from_iter" /\ Len(path) < Len(start)
    /\ path = prev /\ ret = FALSE

\* C7: for width, height >= 2, rect_path followed by an unlimited condenser
\* leaves (0,0), (0,height-1), (width-1,height-1), (width-1,0), (0,0).
C7_RectCondensedToCorners ==
    (ctor = "rect_path" /\ result = "Ok" /\ width >= 2 /\ height >= 2
        /\ limit = 0 /\ op = "condense" /\ ops >= 1) =>
        path = <<Origin, Pt(0, height - 1), Pt(width - 1, height - 1),
                 Pt(width - 1, 0), Origin>>

C7_Witness ==
    /\ ctor = "rect_path" /\ width = 10 /\ height = 15
    /\ limit = 0 /\ op = "condense" /\ ops = 1 /\ Len(prev) = 47
    /\ path = <<Pt(0, 0), Pt(0, 14), Pt(9, 14), Pt(9, 0), Pt(0, 0)>>

----------------------------------------------------------------------------
(* The caller: building a PathScaler and applying it *)

FactorValues == (-1)..MaxFactor

\* the points from which the paths handed to the scaler are drawn
ScalerPointSet == {Pt(0, 0), Pt(1, 0), Pt(2, 0), Pt(2, 1), Pt(-1, -2)}

ScalerPaths == SeqsUpTo(ScalerPointSet, MaxScaleLen)

\* PathScalerBuilder::x_factor(v)
SetXFactor ==
    /\ pc = "building"
    /\ \E v \in FactorValues : builder' = [builder EXCEPT !.x_factor = Some(v)]
    /\ UNCHANGED <<pc, pathVars, callVars, limit, build_result, scaler,
                   adderVars, loopVars>>
    /\ UNCHANGED <<histVars, xformVars, pointVars, gridVars>>

\* PathScalerBuilder::y_factor(v)
SetYFactor ==
    /\ pc = "building"
    /\ \E v \in FactorValues : builder' = [builder EXCEPT !.y_factor = Some(v)]
    /\ UNCHANGED <<pc, pathVars, callVars, limit, build_result, scaler,
                   adderVars, loopVars>>
    /\ UNCHANGED <<histVars, xformVars, pointVars, gridVars>>

\* PathScalerBuilder::build()
Build ==
    /\ pc = "building"
    /\ LET r == BuildScaler(builder) IN
        /\ scaler' = r
        /\ IF IsSome(r)
           THEN build_result' = "Ok" /\ pc' = "idle"
           ELSE build_result' = "Err" /\ pc' = "failed"
    /\ UNCHANGED <<pathVars, callVars, limit, builder, adderVars, loopVars>>
    /\ UNCHANGED <<histVars, xformVars, pointVars, gridVars>>

\* PathScaler::default()
UseDefault ==
    /\ pc = "building"
    /\ scaler' = Some(DefaultScaler)
    /\ pc' = "idle"
    /\ UNCHANGED <<pathVars, callVars, limit, builder, build_result, adderVars,
                   loopVars>>
    /\ UNCHANGED <<histVars, xformVars, pointVars, gridVars>>

\* PathScaler::mutate(&mut path)
Scale ==
    /\ pc = "idle"
    /\ IsSome(scaler)
    /\ ops < MaxOps
    /\ LET r == ScalerMutate(path, Unwrap(scaler)) IN
        /\ path' = r.points
        /\ ret' = r.ret
    /\ prev' = path
    /\ op' = "scale"
    /\ ops' = ops + 1
    /\ UNCHANGED <<pc, ctor, result, start, width, height, limit, scalerVars,
                   adderVars, loopVars>>
    /\ UNCHANGED <<histVars, xformVars, pointVars, gridVars>>

\* a path built from points, a fresh PathScalerBuilder
InitScaler ==
    /\ pc = "building"
    /\ ctor = "from_iter" /\ result = "Ok"
    /\ path \in ScalerPaths /\ start = path
    /\ width = 0 /\ height = 0
    /\ prev = <<>> /\ op = "none" /\ ret = FALSE /\ ops = 0
    /\ limit = 0
    /\ builder = EmptyBuilder /\ build_result = "none" /\ scaler = None
    /\ bounds = None /\ passes = 0 /\ attempt = 0 /\ plus_bias = 0
    /\ avoid = {} /\ registered = {}
    /\ pass = 0 /\ idx = 0 /\ any_mutations = FALSE
    /\ outcome = "none" /\ cand = <<>>
    /\ InitOther

NextScaler == SetXFactor \/ SetYFactor \/ Build \/ UseDefault \/ Scale

SpecScaler == InitScaler /\ [][NextScaler]_vars

----------------------------------------------------------------------------
(* Properties of PathScaler, checked under SpecScaler *)

RECURSIVE Pow(_, _)
Pow(b, n) == IF n = 0 THEN 1 ELSE b * Pow(b, n - 1)

ScaledBy(s, fx, fy) == [k \in 1..Len(s) |-> Pt(s[k].x * fx, s[k].y * fy)]

\* C8: PathScaler::mutate replaces every (x, y) by (x*fx, y*fy), keeping the
\* number and order of points; n applications scale by (fx^n, fy^n).
C8_ScaledByPowers ==
    (op = "scale" /\ ops >= 1) =>
        LET sc == Unwrap(scaler) IN
        /\ Len(path) = Len(prev)
        /\ \A k \in 1..Len(prev) :
            path[k] = Pt(prev[k].x * sc.x_factor, prev[k].y * sc.y_factor)
        /\ path = ScaledBy(start, Pow(sc.x_factor, ops), Pow(sc.y_factor, ops))

C8_Witness ==
    /\ op = "scale" /\ ops = 2
    /\ scaler = Some([x_factor |-> 2, y_factor |-> 3])
    /\ start = <<Pt(0, 0), Pt(1, 0), Pt(2, 0), Pt(2, 1)>>
    /\ prev = <<Pt(0, 0), Pt(2, 0), Pt(4, 0), Pt(4, 3)>>
    /\ path = <<Pt(0, 0), Pt(4, 0), Pt(8, 0), Pt(8, 9)>>

\* C9 as claimed: PathScaler::mutate returns false without a change for
\* factors (1, 1), true for any other factors, and in general mutate returns
\* true exactly when the path was changed.
C9_TrueIffChanged ==
    (op = "scale" /\ ops >= 1) =>
        LET sc == Unwrap(scaler) IN
        /\ (sc.x_factor = 1 /\ sc.y_factor = 1) => (ret = FALSE /\ path = prev)
        /\ (sc.x_factor # 1 \/ sc.y_factor # 1) => ret = TRUE
        /\ (ret = TRUE) <=> (path # prev)

\* C9 amended: PathScaler::mutate returns false without a change for factors
\* (1, 1) and true for any other factors; a changed path implies a true
\* return, but a true return does not imply a changed path.
C9_ScalerReturn ==
    (op = "scale" /\ ops >= 1) =>
        LET sc == Unwrap(scaler) IN
        /\ (sc.x_factor = 1 /\ sc.y_factor = 1) => (ret = FALSE /\ path = prev)
        /\ (sc.x_factor # 1 \/ sc.y_factor # 1) => ret = TRUE
        /\ (path # prev) => (ret = TRUE)

C9_Witness ==
    /\ op = "scale" /\ ops = 1
    /\ scaler = Some([x_factor |-> 1, y_factor |-> 1])
    /\ build_result = "Ok"
    /\ ret = FALSE /\ path = prev
    /\ path = <<Pt(0, 0), Pt(1, 0), Pt(2, 0), Pt(2, 1)>>

BadFactor(o) == IsSome(o) /\ Unwrap(o) < 1

\* C10: build fails, yielding no scaler, exactly when a factor below 1 was
\* set; every PathScaler has both factors >= 1, unset factors being 1.
C10_BuilderValidates ==
    /\ (build_result # "none") =>
        ((build_result = "Err") <=>
            (BadFactor(builder.x_factor) \/ BadFactor(builder.y_factor)))
    /\ (build_result = "Err") => (scaler = None /\ pc = "failed")
    /\ (build_result = "Ok") =>
        /\ IsSome(scaler)
        /\ Unwrap(scaler).x_factor =
            (IF IsSome(builder.x_factor) THEN Unwrap(builder.x_factor) ELSE 1)
        /\ Unwrap(scaler).y_factor =
            (IF IsSome(builder.y_factor) THEN Unwrap(builder.y_factor) ELSE 1)
    /\ IsSome(scaler) => (Unwrap(scaler).x_factor >= 1 /\ Unwrap(scaler).y_factor >= 1)

C10_Witness ==
    /\ build_result = "Err" /\ scaler = None /\ pc = "failed"
    /\ builder = [x_factor |-> Some(2), y_factor |-> Some(0)]

----------------------------------------------------------------------------
(* Properties of UnitSegmentAdder, checked under SpecAdder *)

\* no point occurs twice, apart from a closed path's coinciding ends
IsSelfAvoiding(s) ==
    \A i \in 1..Len(s), j \in 1..Len(s) :
        (i < j /\ s[i] = s[j]) => (i = 1 /\ j = Len(s))

\* C1: from a unit-step path without a repeated point, whatever the passes,
\* attempt, plus_bias and rolls, the path never holds a point twice and all
\* its consecutive points stay one unit apart along one axis.
C1_SelfAvoidingUnitPreserved ==
    (IsUnitPath(start) /\ IsSelfAvoiding(start)) =>
        (IsUnitPath(path) /\ IsSelfAvoiding(path))

C1_Witness ==
    /\ start = RectPoints(2, 2)
    /\ op = "add" /\ ops = 2 /\ pc = "idle"
    /\ Len(path) > Len(prev) /\ Len(prev) > Len(start)
    /\ IsUnitPath(path) /\ IsSelfAvoiding(path)

InBox(b, p) == b.min_x <= p.x /\ p.x <= b.max_x /\ b.min_y <= p.y /\ p.y <= b.max_y

\* C2 as claimed: with a Bound2D configured, after any mutate call no point
\* of the path lies outside the bound (stated here for the calls that changed
\* a unit-step path without repeated points).
C2_WholePathInBound ==
    (IsSome(bounds) /\ op = "add" /\ ops >= 1 /\ ret = TRUE
        /\ IsUnitPath(start) /\ IsSelfAvoiding(start)) =>
        \A p \in Points(path) : InBox(Unwrap(bounds), p)

\* C2 amended: with a Bound2D configured, no point that mutate adds to the
\* path lies outside the bound, so a path that starts inside it stays inside.
C2_AddedPointsInBound ==
    IsSome(bounds) =>
        /\ \A p \in Points(path) \ Points(start) : InBox(Unwrap(bounds), p)
        /\ (\A p \in Points(start) : InBox(Unwrap(bounds), p)) =>
              (\A p \in Points(path) : InBox(Unwrap(bounds), p))

\* the scenario of the claim: attempt 1.0, the bound derived from a rectangle
\* two points wide, an edge refused for leaving the box
C2_Witness ==
    /\ start = RectPoints(2, 3)
    /\ bounds = Some(DeriveFrom(start))
    /\ attempt = 100 /\ passes = ScenarioPasses /\ pass = passes
    /\ op = "add" /\ ops = 1 /\ pc = "idle"
    /\ outcome = "out_of_bounds"
    /\ path = start

\* C3: a point given to insert_avoided while not on the path is never put
\* on the path, as long as clear_avoided is not called.
C3_AvoidedNeverInserted ==
    \A p \in registered : p \notin Points(path)

C3_Witness ==
    /\ registered # {}
    /\ outcome = "avoided"
    /\ \E k \in 1..Len(cand) : cand[k] \in registered
    /\ Len(path) > Len(start)

----------------------------------------------------------------------------
(* PathReflector and PointPath::translate.  Coordinates stay far from the  *)
(* limits of i64, so no negation or addition overflows.                    *)

MaxTransformLen == 3
MaxTransformOps == 2

\* a reflect_x_mut that changes the sign of the wrong component
ReflectXMut_mut(p) == Pt(-p.x, p.y)

\* Point::reflect_x_mut: self.y = -self.y
ReflectXMut(p) == Pt(p.x, -p.y)

\* Point::reflect_y_mut: self.x = -self.x
ReflectYMut(p) == Pt(-p.x, p.y)

\* the axis tags XAxis, YAxis and BothAxis
Axes == {"XAxis", "YAxis", "BothAxis"}

\* <T as Reflection>::reflect(path): points_mut().for_each(...)
ReflectPath(axis, s) ==
    [k \in 1..Len(s) |->
        IF axis = "XAxis" THEN ReflectXMut(s[k])
        ELSE IF axis = "YAxis" THEN ReflectYMut(s[k])
        ELSE ReflectYMut(ReflectXMut(s[k]))]

\* PathReflector<T>::mutate: T::reflect(path); true
ReflectorMutate(axis, s) == [points |-> ReflectPath(axis, s), ret |-> TRUE]

\* a translate that assigns dxdy to every point instead of adding it
TranslatePath_mut(s, dxdy) == [k \in 1..Len(s) |-> dxdy]

\* Path::translate and ClosedPath::translate: `*p += dxdy` for every point
TranslatePath(s, dxdy) == [k \in 1..Len(s) |-> PointAdd(s[k], dxdy)]

\* the points of the paths handed to the reflectors and to translate
TransformPointSet == {Pt(0, 0), Pt(1, 0), Pt(1, 1), Pt(-2, 3)}

\* open paths of up to MaxTransformLen points, and a closed rectangle
TransformPaths == SeqsUpTo(TransformPointSet, MaxTransformLen) \cup {RectPoints(2, 2)}

\* the deltas a caller translates by: each delta comes with its negation
Deltas == {Pt(0, 0), Pt(1, 0), Pt(-1, 0), Pt(2, -3), Pt(-2, 3)}

\* the caller's -delta
Negated(d) == Pt(-d.x, -d.y)

\* reflector.mutate(&mut path) for the reflector of the given axis
Reflect(axis) ==
    /\ pc = "idle"
    /\ ops < MaxTransformOps
    /\ LET r == ReflectorMutate(axis, path) IN
        /\ path' = r.points
        /\ ret' = r.ret
    /\ prev' = path /\ prev2' = prev
    /\ op' = "reflect" /\ prev_op' = op
    /\ arg' = axis /\ prev_arg' = arg
    /\ ops' = ops + 1
    /\ UNCHANGED <<pc, ctor, result, start, width, height, limit, scalerVars,
                   adderVars, loopVars, histVars, pointVars, gridVars>>

\* path.translate(dxdy): nothing is returned
Translate(dxdy) ==
    /\ pc = "idle"
    /\ ops < MaxTransformOps
    /\ path' = TranslatePath(path, dxdy)
    /\ prev' = path /\ prev2' = prev
    /\ op' = "translate" /\ prev_op' = op
    /\ arg' = dxdy /\ prev_arg' = arg
    /\ ops' = ops + 1
    /\ UNCHANGED <<pc, ctor, result, start, width, height, ret, limit, scalerVars,
                   adderVars, loopVars, histVars, pointVars, gridVars>>

\* a Path or ClosedPath built from points, before any call
InitTransform ==
    /\ pc = "idle"
    /\ ctor = "from_iter" /\ result = "Ok"
    /\ path \in TransformPaths /\ start = path
    /\ width = 0 /\ height = 0
    /\ prev = <<>> /\ op = "none" /\ ret = FALSE /\ ops = 0
    /\ limit = 0
    /\ builder = EmptyBuilder /\ build_result = "none" /\ scaler = None
    /\ bounds = None /\ passes = 0 /\ attempt = 0 /\ plus_bias = 0
    /\ avoid = {} /\ registered = {}
    /\ pass = 0 /\ idx = 0 /\ any_mutations = FALSE
    /\ outcome = "none" /\ cand = <<>>
    /\ InitOther

NextTransform ==
    \/ \E axis \in Axes : Reflect(axis)
    \/ \E dxdy \in Deltas : Translate(dxdy)

SpecTransform == InitTransform /\ [][NextTransform]_vars

\* C11: PathReflector::mutate always returns true, even when the path is left
\* unchanged, and maps every point (x, y) to (x, -y) for the x-axis reflector,
\* to (-x, y) for the y-axis reflector and to (-x, -y) for the both-axes
\* reflector, keeping the number and the order of the points.
C11_ReflectorMaps ==
    (op = "reflect") =>
        /\ ret = TRUE
        /\ Len(path) = Len(prev)
        /\ \A k \in 1..Len(prev) :
            /\ arg = "XAxis" => (path[k].x = prev[k].x /\ path[k].y = 0 - prev[k].y)
            /\ arg = "YAxis" => (path[k].x = 0 - prev[k].x /\ path[k].y = prev[k].y)
            /\ arg = "BothAxis" =>
                (path[k].x = 0 - prev[k].x /\ path[k].y = 0 - prev[k].y)

\* an x-axis reflection of a path on the x axis: unchanged, true all the same
C11_Witness ==
    /\ op = "reflect" /\ arg = "XAxis"
    /\ Len(path) = 3 /\ path = prev /\ ret = TRUE
    /\ prev_op = "reflect" /\ prev_arg = "BothAxis" /\ prev2 # prev

\* C12: for every Path or ClosedPath and every delta, translate(delta)
\* followed by translate(-delta) restores the original point sequence exactly.
C12_TranslateRoundTrip ==
    (op = "translate" /\ prev_op = "translate" /\ arg = Negated(prev_arg)) =>
        path = prev2

\* the closed rectangle moved by (2, -3) and back
C12_Witness ==
    /\ op = "translate" /\ prev_op = "translate"
    /\ prev_arg = Pt(2, -3) /\ arg = Pt(-2, 3)
    /\ prev2 = RectPoints(2, 2) /\ prev # prev2 /\ path = prev2

----------------------------------------------------------------------------
(* Point::cardinal_to as a function of its two points *)

MaxCoord == 2

\* the coordinates of self and other
Coords == (0 - MaxCoord)..MaxCoord

\* self.cardinal_to(&other)
CallCardinalTo ==
    /\ ~called
    /\ cardinal' = CardinalTo(pt_a, pt_b)
    /\ called' = TRUE
    /\ UNCHANGED <<pc, pathVars, callVars, limit, scalerVars, adderVars, loopVars,
                   histVars, xformVars, pt_a, pt_b, gridVars>>

\* two points, before the call
InitPoint ==
    /\ pc = "idle"
    /\ ctor = "none" /\ result = "none"
    /\ path = <<>> /\ start = <<>>
    /\ width = 0 /\ height = 0
    /\ prev = <<>> /\ op = "none" /\ ret = FALSE /\ ops = 0
    /\ limit = 0
    /\ builder = EmptyBuilder /\ build_result = "none" /\ scaler = None
    /\ bounds = None /\ passes = 0 /\ attempt = 0 /\ plus_bias = 0
    /\ avoid = {} /\ registered = {}
    /\ pass = 0 /\ idx = 0 /\ any_mutations = FALSE
    /\ outcome = "none" /\ cand = <<>>
    /\ accepted = 0 /\ pass_path = <<>> /\ visited = <<>>
    /\ asked = {} /\ foreign = {} /\ switches = 0 /\ unit_only = TRUE
    /\ arg = "none" /\ prev_arg = "none" /\ prev_op = "none" /\ prev2 = <<>>
    /\ pt_a \in {Pt(ax, ay) : ax \in Coords, ay \in Coords}
    /\ pt_b \in {Pt(bx, by) : bx \in Coords, by \in Coords}
    /\ cardinal = None /\ called = FALSE
    /\ grid = NoGrid /\ g_op = "none" /\ g_point = Origin /\ g_ret = NoCall
    /\ g_prev = <<>>

NextPoint == CallCardinalTo

SpecPoint == InitPoint /\ [][NextPoint]_vars

\* C13 as stated: cardinal_to returns a direction only when the points are
\* exactly one unit apart along exactly one axis, and none otherwise, points
\* more than one unit apart included.
C13_OnlyUnitApart ==
    called => (IsSome(cardinal) <=> IsUnitStep(pt_a, pt_b))

\* C13: cardinal_to returns the compass direction whenever the two points
\* differ in exactly one coordinate, at any distance (north for a larger y,
\* east for a larger x of the other point), and none for identical points
\* and for points that differ in both coordinates.
C13_AxisAlignedAnyDistance ==
    called =>
        /\ (pt_a.x = pt_b.x /\ pt_a.y < pt_b.y) => cardinal = Some("North")
        /\ (pt_a.x = pt_b.x /\ pt_a.y > pt_b.y) => cardinal = Some("South")
        /\ (pt_a.y = pt_b.y /\ pt_a.x < pt_b.x) => cardinal = Some("East")
        /\ (pt_a.y = pt_b.y /\ pt_a.x > pt_b.x) => cardinal = Some("West")
        /\ (pt_a = pt_b) => cardinal = None
        /\ (pt_a.x # pt_b.x /\ pt_a.y # pt_b.y) => cardinal = None

\* the points of the doc test, three units apart: East
C13_Witness ==
    /\ called /\ pt_a = Pt(-1, 0) /\ pt_b = Pt(2, 0)
    /\ cardinal = Some("East")

----------------------------------------------------------------------------
(* The return value of UnitSegmentAdder::mutate, checked under SpecAdder *)

\* a[i..] can be found in b[j..] in order, with other points in between
RECURSIVE IsSubseqFrom(_, _, _, _)
IsSubseqFrom(a, i, b, j) ==
    IF i > Len(a) THEN TRUE
    ELSE IF j > Len(b) THEN FALSE
    ELSE IF a[i] = b[j] THEN IsSubseqFrom(a, i + 1, b, j + 1)
    ELSE IsSubseqFrom(a, i, b, j + 1)

\* C14: UnitSegmentAdder::mutate returns true exactly when at least one bump
\* was accepted in some pass of that call; each accepted bump lengthens the
\* path by exactly two points and none is removed, so it returns true exactly
\* when the path is longer afterwards and false exactly when the sequence is
\* unchanged.
C14_TrueIffBumped ==
    /\ (pc \in {"pass", "edge"}) =>
        /\ any_mutations = (accepted > 0)
        /\ Len(path) = Len(prev) + 2 * accepted
        /\ IsSubseqFrom(prev, 1, path, 1)
    /\ (pc = "idle" /\ op = "add") =>
        /\ ret = (accepted > 0)
        /\ Len(path) = Len(prev) + 2 * accepted
        /\ IsSubseqFrom(prev, 1, path, 1)
        /\ ret = (Len(path) > Len(prev))
        /\ (ret = FALSE) = (path = prev)

\* a second call that made passes over every edge and accepted nothing, after
\* a first call that accepted two bumps
C14_Witness ==
    /\ pc = "idle" /\ op = "add" /\ ops = 2
    /\ passes = 2 /\ attempt = 50
    /\ ret = FALSE /\ accepted = 0 /\ path = prev
    /\ Len(path) = Len(start) + 4
    /\ outcome = "avoided"

----------------------------------------------------------------------------
(* The avoid cache over the lifetime of a UnitSegmentAdder *)

\* C16 as stated: across any sequence of operations on the mutator no point
\* is ever removed from the avoidance set.
C16_NeverShrinks == [][avoid \subseteq avoid']_vars

\* C16: the avoidance set grows monotonically across insert_avoided and
\* mutate calls, and contains the caller-supplied avoided points and every
\* point of every path handed to mutate since the last clear_avoided;
\* clear_avoided empties it.
C16_GrowsUntilCleared ==
    [][IF ClearAvoided
       THEN avoid' = {}
       ELSE /\ avoid \subseteq avoid'
            /\ (registered' \cup asked') \subseteq avoid']_vars

\* two calls and an insert_avoided without a clear: the cache holds the
\* registered point, the path handed in and the bumped points
C16_Witness ==
    /\ pc = "idle" /\ op = "add" /\ ops = 2
    /\ registered # {} /\ asked # {}
    /\ (registered \cup asked) \subseteq avoid
    /\ Points(path) \subseteq avoid
    /\ Points(path) # Points(start)
    /\ avoid # (registered \cup Points(start))

----------------------------------------------------------------------------
(* One UnitSegmentAdder used for one path after another *)

MaxSwitches == 1

\* the paths the adder is used for in turn: neighbours on a small lattice
ReusePaths ==
    { <<Pt(0, 0), Pt(1, 0)>>,
      <<Pt(0, 1), Pt(1, 1), Pt(2, 1)>>,
      <<Pt(1, -1), Pt(0, -1)>>,
      <<Pt(0, 0), Pt(1, 1), Pt(1, 2)>> }

\* the caller turns to another path b and keeps the adder.  The points of
\* the path left behind are remembered if it was handed to mutate since the
\* last clear_avoided.
SwitchPath(b) ==
    /\ pc = "idle"
    /\ switches < MaxSwitches
    /\ b # start
    /\ path' = b /\ start' = b
    /\ prev' = <<>> /\ op' = "switch"
    /\ foreign' = IF Points(start) \subseteq asked
                  THEN foreign \cup Points(path) ELSE foreign
    /\ switches' = switches + 1
    /\ UNCHANGED <<pc, ctor, result, width, height, ret, ops, limit, scalerVars,
                   adderVars, loopVars, accepted, pass_path, visited, asked,
                   unit_only,
                   xformVars, pointVars, gridVars>>

\* a first path and a UnitSegmentAdder built for use with several paths
InitReuse ==
    /\ pc = "idle"
    /\ ctor = "from_iter" /\ result = "Ok"
    /\ path \in ReusePaths /\ start = path
    /\ width = 0 /\ height = 0
    /\ prev = <<>> /\ op = "none" /\ ret = FALSE /\ ops = 0
    /\ limit = 0
    /\ builder = EmptyBuilder /\ build_result = "none" /\ scaler = None
    /\ bounds \in {None, Some([min_x |-> 0, max_x |-> 1, min_y |-> -1, max_y |-> 2])}
    /\ attempt \in {50, 100}
    /\ plus_bias \in Probabilities
    /\ passes = 1
    /\ avoid = {} /\ registered = {}
    /\ pass = 0 /\ idx = 0 /\ any_mutations = FALSE
    /\ outcome = "none" /\ cand = <<>>
    /\ InitOther

NextReuse ==
    \/ NextAdder
    \/ \E b \in ReusePaths : SwitchPath(b)

SpecReuse == InitReuse /\ [][NextReuse]_vars

\* C17: when one adder mutates path A and is then, without clear_avoided in
\* between, used to mutate another path B, no point it inserts into B equals
\* a point that was on A or was inserted into A: the occupancy recorded for
\* A persists until clear_avoided is called.
C17_NoReuseOfEarlierPoints ==
    /\ foreign \subseteq avoid
    /\ (Points(path) \ Points(start)) \cap foreign = {}

\* path B grew by a bump although another bump was refused for landing on a
\* point of path A
C17_Witness ==
    /\ switches = 1 /\ foreign # {}
    /\ pc = "idle" /\ op = "add" /\ ret = TRUE
    /\ Len(path) > Len(start)
    /\ Len(visited) > 0
    /\ outcome = "avoided" /\ cand[1] \in foreign /\ cand[1] \notin Points(path)

----------------------------------------------------------------------------
(* Grid<char>: new, set and get.  cells[y][x] of the code is                *)
(* cells[y + 1][x + 1] here.                                                *)

MaxGrid == 2

\* the fill of Grid::new and the value written by set
Fill == "."

Mark == "#"

\* Grid::new(width, height, fill): vec![vec![fill; width]; height]
GridNew(w, h, fill) ==
    [width |-> w, height |-> h,
     cells |-> [y \in 1..h |-> [x \in 1..w |-> fill]]]

\* the test of get, get_mut and set: `<=` against width and against height
InGridTest(g, p) ==
    0 <= p.x /\ p.x <= g.width /\ 0 <= p.y /\ p.y <= g.height

\* cells[point.y as usize][point.x as usize] is inside both Vecs
Indexable(g, p) ==
    /\ p.y + 1 \in 1..Len(g.cells)
    /\ p.x + 1 \in 1..Len(g.cells[p.y + 1])

\* what a call gives back: "true", "false", "Some" with a value, "None",
\* or "panic" when the call did not return
Returned(k, v) == [kind |-> k, value |-> v]

\* Grid::set(point, value); indexing outside a Vec panics before the write
GridSetOf(g, p, v) ==
    IF InGridTest(g, p)
    THEN IF Indexable(g, p)
         THEN [grid |-> [g EXCEPT !.cells[p.y + 1][p.x + 1] = v],
               ret |-> Returned("true", "")]
         ELSE [grid |-> g, ret |-> Returned("panic", "")]
    ELSE [grid |-> g, ret |-> Returned("false", "")]

\* Grid::get(point)
GridGetOf(g, p) ==
    IF InGridTest(g, p)
    THEN IF Indexable(g, p)
         THEN Returned("Some", g.cells[p.y + 1][p.x + 1])
         ELSE Returned("panic", "")
    ELSE Returned("None", "")

\* the points handed to set and get: the grid, its rim and just outside
GridPoints == {Pt(gx, gy) : gx \in (0 - 1)..(MaxGrid + 1), gy \in (0 - 1)..(MaxGrid + 1)}

\* grid.set(&p, Mark)
GridSet(p) ==
    /\ g_ret.kind # "panic"
    /\ LET r == GridSetOf(grid, p, Mark) IN
        /\ grid' = r.grid
        /\ g_ret' = r.ret
    /\ g_op' = "set" /\ g_point' = p /\ g_prev' = grid.cells
    /\ UNCHANGED <<pc, pathVars, callVars, limit, scalerVars, adderVars, loopVars,
                   histVars, xformVars, pointVars>>

\* grid.get(&p)
GridGet(p) ==
    /\ g_ret.kind # "panic"
    /\ g_ret' = GridGetOf(grid, p)
    /\ g_op' = "get" /\ g_point' = p /\ g_prev' = grid.cells
    /\ UNCHANGED <<pc, pathVars, callVars, limit, scalerVars, adderVars, loopVars,
                   histVars, xformVars, pointVars, grid>>

\* a grid fresh from Grid::new
InitGrid ==
    /\ pc = "idle"
    /\ ctor = "none" /\ result = "none"
    /\ path = <<>> /\ start = <<>>
    /\ width = 0 /\ height = 0
    /\ prev = <<>> /\ op = "none" /\ ret = FALSE /\ ops = 0
    /\ limit = 0
    /\ builder = EmptyBuilder /\ build_result = "none" /\ scaler = None
    /\ bounds = None /\ passes = 0 /\ attempt = 0 /\ plus_bias = 0
    /\ avoid = {} /\ registered = {}
    /\ pass = 0 /\ idx = 0 /\ any_mutations = FALSE
    /\ outcome = "none" /\ cand = <<>>
    /\ accepted = 0 /\ pass_path = <<>> /\ visited = <<>>
    /\ asked = {} /\ foreign = {} /\ switches = 0 /\ unit_only = TRUE
    /\ arg = "none" /\ prev_arg = "none" /\ prev_op = "none" /\ prev2 = <<>>
    /\ pt_a = Origin /\ pt_b = Origin /\ cardinal = None /\ called = FALSE
    /\ \E w \in 0..MaxGrid, h \in 0..MaxGrid : grid = GridNew(w, h, Fill)
    /\ g_op = "none" /\ g_point = Origin /\ g_ret = NoCall
    /\ g_prev = grid.cells

NextGrid ==
    \/ \E p \in GridPoints : GridSet(p)
    \/ \E p \in GridPoints : GridGet(p)

SpecGrid == InitGrid /\ [][NextGrid]_vars

\* 0 <= x < width and 0 <= y < height
InsideGrid(g, p) == 0 <= p.x /\ p.x < g.width /\ 0 <= p.y /\ p.y < g.height

\* C18: Grid::set(point, value) returns true and stores the value exactly when
\* 0 <= x < width and 0 <= y < height; for every other point, x = width and
\* y = height included, it returns false without failing and without changing
\* any cell, and Grid::get returns None for those points.
C18_SetGetInsideOnly ==
    /\ (g_op = "set" /\ InsideGrid(grid, g_point)) =>
        /\ g_ret.kind = "true"
        /\ grid.cells[g_point.y + 1][g_point.x + 1] = Mark
    /\ (g_op = "set" /\ ~InsideGrid(grid, g_point)) =>
        /\ g_ret.kind = "false"
        /\ grid.cells = g_prev
    /\ (g_op = "get" /\ ~InsideGrid(grid, g_point)) =>
        g_ret.kind = "None"

----------------------------------------------------------------------------
(* The edge loop of UnitSegmentAdder::mutate, checked under SpecAdder *)

\* C19: within one pass the edges are visited in strictly decreasing index
\* order starting from the last edge; every edge present when the pass began
\* is considered exactly once, with its original endpoints, and the edges
\* created by bumps accepted in that pass are not considered until the next
\* pass.
C19_ReverseEdgeOrder ==
    /\ \A k \in 1..Len(visited) :
        /\ visited[k].i = Len(pass_path) - 1 - k
        /\ visited[k].p1 = Get(pass_path, visited[k].i)
        /\ visited[k].p2 = Get(pass_path, visited[k].i + 1)
    /\ (pc = "edge") => idx = Len(pass_path) - 2 - Len(visited)
    /\ (pc # "edge") =>
        Len(visited) = (IF Len(pass_path) >= 2 THEN Len(pass_path) - 1 ELSE 0)

\* the end of a pass over a rectangle in which two bumps were accepted
C19_Witness ==
    /\ pc = "pass" /\ pass = 1
    /\ pass_path = RectPoints(2, 3)
    /\ Len(visited) = Len(pass_path) - 1
    /\ Len(path) = Len(pass_path) + 4
    /\ visited[Len(visited)].i = 0

\* C20: an accepted bump on the edge (p1, p2) at the indices i, i + 1 gives
\* the old path with exactly the two shifted points spliced in, in the order
\* p1, p1', p2', p2, where p1' and p2' are p1 and p2 displaced by the same
\* single unit perpendicular to the edge (in y for an east/west edge, in x
\* for a north/south edge); all other points keep their values and their
\* relative order, and both new points are in the avoidance set as soon as
\* they are in the path.
C20_BumpSplicesShiftedPair ==
    [][(pc = "edge" /\ accepted' # accepted) =>
        LET i == idx
            p1 == Get(path, i)
            p2 == Get(path, i + 1)
            n1 == Get(path', i + 1)
            n2 == Get(path', i + 2)
        IN /\ Len(path') = Len(path) + 2
           /\ \A k \in 0..i : Get(path', k) = Get(path, k)
           /\ \A k \in (i + 1)..(Len(path) - 1) : Get(path', k + 2) = Get(path, k)
           /\ p1 # p2
           /\ \/ /\ p1.y = p2.y
                 /\ n1.x = p1.x /\ n2.x = p2.x
                 /\ n1.y - p1.y = n2.y - p2.y
                 /\ n1.y - p1.y \in {-1, 1}
              \/ /\ p1.x = p2.x
                 /\ n1.y = p1.y /\ n2.y = p2.y
                 /\ n1.x - p1.x = n2.x - p2.x
                 /\ n1.x - p1.x \in {-1, 1}
           /\ {n1, n2} \subseteq avoid']_vars

\* right after a bump on the edge at idx + 1: the shifted pair sits between
\* the edge's endpoints
C20_Witness ==
    /\ pc = "edge" /\ outcome = "accepted" /\ accepted = 2
    /\ Len(visited) >= 1
    /\ visited[Len(visited)].i = idx + 1
    /\ Get(path, idx + 1) = visited[Len(visited)].p1
    /\ Get(path, idx + 2) = cand[1]
    /\ Get(path, idx + 3) = cand[2]
    /\ Get(path, idx + 4) = visited[Len(visited)].p2
    /\ {cand[1], cand[2]} \subseteq avoid

----------------------------------------------------------------------------
(* Rejected edges of UnitSegmentAdder::mutate, checked under SpecAdder *)

\* C21: when UnitSegmentAdder rejects an edge (failed attempt roll, a shifted
\* point outside the bound, or a shifted point already in the avoidance set),
\* neither the path nor the avoidance set changes for that edge and the pass
\* continues with the next edge; no edge visit adds only one of the two
\* shifted points to the path or to the avoidance set.
C21_RejectionLeavesNoTrace ==
    [][(pc = "edge") =>
        /\ (outcome' \in {"not_attempted", "out_of_bounds", "avoided"}) =>
            /\ path' = path
            /\ avoid' = avoid
            /\ IF idx > 0 THEN pc' = "edge" /\ idx' = idx - 1
               ELSE pc' = "pass" /\ pass' = pass + 1
        /\ \/ avoid' = avoid /\ path' = path
           \/ /\ Cardinality(avoid' \ avoid) = 2
              /\ Len(path') = Len(path) + 2
              /\ avoid' \ avoid = Points(path') \ Points(path)]_vars

\* a bump refused because only its second point was taken, with an edge
\* still to visit
C21_Witness ==
    /\ pc = "edge" /\ outcome = "avoided"
    /\ cand[1] \notin avoid /\ cand[2] \in avoid
    /\ path = pass_path /\ Len(visited) = 1
    /\ accepted = 0 /\ ops = 1

----------------------------------------------------------------------------
(* Which edges UnitSegmentAdder::mutate bumps, checked under SpecAdder *)

\* the edge read by the last edge visit of the current pass
LastVisited == visited[Len(visited)]

\* p and q differ in exactly one coordinate
IsAxisAligned(p, q) == (p.x = q.x) # (p.y = q.y)

\* C22 as stated: mutate skips every edge whose endpoints are not exactly one
\* unit apart along one axis; such an edge, an axis-aligned edge longer than
\* one unit included, never receives a bump.
C22_OnlyUnitEdgesBumped ==
    (Len(visited) > 0 /\ outcome = "accepted") =>
        IsUnitStep(LastVisited.p1, LastVisited.p2)

\* C22: mutate skips every edge whose endpoints are identical or differ in
\* both coordinates (cardinal_to is none): such an edge never receives a
\* bump.  An axis-aligned edge longer than one unit is treated like a unit
\* edge and can receive a bump.
C22_OnlyAxisAlignedEdgesBumped ==
    (Len(visited) > 0) =>
        /\ (outcome = "accepted") => IsAxisAligned(LastVisited.p1, LastVisited.p2)
        /\ ~IsAxisAligned(LastVisited.p1, LastVisited.p2) =>
              outcome \in {"not_attempted", "not_cardinal"}
        /\ (outcome = "not_cardinal") => ~IsAxisAligned(LastVisited.p1, LastVisited.p2)

\* the edge (0,0)-(2,0) was bumped; a diagonal edge was passed over
C22_Witness ==
    /\ Len(visited) > 0 /\ outcome = "accepted"
    /\ LastVisited.p1 = Pt(0, 0) /\ LastVisited.p2 = Pt(2, 0)
    /\ Len(path) = 4 /\ start = <<Pt(0, 0), Pt(2, 0)>>

----------------------------------------------------------------------------
(* UnitSegmentAdder and PathCondenser used in turn on a rect_path loop *)

\* the (width, height) of the loops the two mutators are used on
InterleaveRects == {<<2, 2>>, <<3, 2>>, <<2, 3>>, <<3, 3>>}

\* a loop from rect_path, an adder and a condenser
InitInterleave ==
    /\ pc = "idle"
    /\ ctor = "rect_path" /\ result = "Ok"
    /\ \E wh \in InterleaveRects :
        /\ width = wh[1] /\ height = wh[2]
        /\ path = RectPoints(wh[1], wh[2])
    /\ start = path
    /\ prev = <<>> /\ op = "none" /\ ret = FALSE /\ ops = 0
    /\ limit \in {0, 1}
    /\ builder = EmptyBuilder /\ build_result = "none" /\ scaler = None
    /\ bounds \in {None, Some([min_x |-> -1, max_x |-> 2, min_y |-> -1, max_y |-> 2])}
    /\ attempt \in {50, 100}
    /\ plus_bias \in Probabilities
    /\ passes = 1
    /\ avoid = {} /\ registered = {}
    /\ pass = 0 /\ idx = 0 /\ any_mutations = FALSE
    /\ outcome = "none" /\ cand = <<>>
    /\ InitOther

NextInterleave ==
    \/ Condense
    \/ MutateBegin
    \/ PassBegin
    \/ EdgeNotAttempted
    \/ EdgeOutOfBounds
    \/ EdgeAvoided
    \/ EdgeAccept
    \/ MutateReturn

SpecInterleave == InitInterleave /\ [][NextInterleave]_vars

Min(a, b) == IF a < b THEN a ELSE b

Max(a, b) == IF a < b THEN b ELSE a

\* the lattice points covered by the segment from p to q
Covered(p, q) ==
    IF p.x = q.x THEN {Pt(p.x, cy) : cy \in Min(p.y, q.y)..Max(p.y, q.y)}
    ELSE IF p.y = q.y THEN {Pt(cx, p.y) : cx \in Min(p.x, q.x)..Max(p.x, q.x)}
    ELSE {p, q}

\* no lattice point is covered by two different segments of s, other than
\* the shared endpoint of consecutive segments and the closing point
IsSimpleLoop(s) ==
    /\ Len(s) >= 2 /\ s[1] = Last(s)
    /\ \A i \in 1..(Len(s) - 1), j \in 1..(Len(s) - 1) :
        (i < j) =>
            (Covered(s[i], s[i + 1]) \cap Covered(s[j], s[j + 1])) \subseteq
                ((IF j = i + 1 THEN {s[j]} ELSE {})
                 \cup (IF i = 1 /\ j = Len(s) - 1 THEN {s[1]} ELSE {}))

\* C23 as stated: for any interleaving of UnitSegmentAdder::mutate and
\* PathCondenser::mutate calls on a loop built by rect_path (width,
\* height >= 2), the path is a non-self-intersecting loop after every call.
C23_SimpleLoopAnyInterleaving ==
    (pc = "idle") => IsSimpleLoop(path)

\* C23: on a loop built by rect_path (width, height >= 2), the path is a
\* non-self-intersecting loop after every UnitSegmentAdder::mutate and
\* PathCondenser::mutate call as long as every path handed to the adder was
\* a unit path, that is, as long as no adder call follows a condenser call
\* that removed a point.
C23_SimpleLoopWhileAdderGetsUnitPaths ==
    (pc = "idle" /\ unit_only) => IsSimpleLoop(path)

\* the square grown by the adder and then condensed
C23_Witness ==
    /\ pc = "idle" /\ unit_only /\ ops = 2
    /\ op = "condense" /\ ret = TRUE
    /\ Len(prev) > Len(start)
    /\ ~IsUnitPath(path) /\ IsSimpleLoop(path)

----------------------------------------------------------------------------
(* What PathCondenser::mutate removes, checked under SpecCondenser *)

\* the path left when, k times (without end for k = -1), the first removable
\* point at or after index i is removed and the same index is looked at again
RECURSIVE RemoveFirstFrom(_, _, _)
RemoveFirstFrom(s, i, k) ==
    IF k = 0 \/ i < 1 \/ i + 1 >= Len(s) THEN s
    ELSE IF RemovableAt(s, i)
         THEN RemoveFirstFrom(Remove(s, i), i, IF k > 0 THEN k - 1 ELSE k)
         ELSE RemoveFirstFrom(s, i + 1, k)

\* how many points an unlimited scan removes from s
Removable(s) == Len(s) - Len(RemoveFirstFrom(s, 1, -1))

\* C24: PathCondenser::mutate with limit k > 0 removes at most k points per
\* call, namely the first min(k, number removable) removable points met in
\* increasing index order; with limit 0 it keeps removing until the scan
\* index reaches len - 1; after each removal the same index is examined again
\* before the scan advances.
C24_RemovesFirstRemovable ==
    (op = "condense") =>
        /\ (limit > 0) =>
            /\ Len(prev) - Len(path) <= limit
            /\ Len(prev) - Len(path) = Min(limit, Removable(prev))
            /\ path = RemoveFirstFrom(prev, 1, limit)
        /\ (limit = 0) =>
            /\ path = RemoveFirstFrom(prev, 1, -1)
            /\ \A i \in 1..(Len(path) - 2) : ~RemovableAt(path, i)

\* limit 2 on a rectangle five points high: two of the removable points go,
\* both at index 1
C24_Witness ==
    /\ op = "condense" /\ limit = 2 /\ ops = 1
    /\ ctor = "rect_path" /\ width = 3 /\ height = 5
    /\ Removable(prev) = 8
    /\ Len(path) = Len(prev) - 2
    /\ path[1] = prev[1] /\ path[2] = prev[4]

\* C25: PathCondenser::mutate returns true exactly when it removed at least
\* one point, which is exactly when first_candidate(0, path) was Some before
\* the call (and with limit 1 the point removed is the one at that index); a
\* path with fewer than 3 points is left untouched and the call returns false.
C25_TrueIffFirstCandidate ==
    (op = "condense") =>
        /\ ret = (Len(path) < Len(prev))
        /\ ret = IsSome(FirstCandidate(0, prev))
        /\ (limit = 1 /\ ret) => path = Remove(prev, Unwrap(FirstCandidate(0, prev)))
        /\ (Len(prev) < 3) => (path = prev /\ ret = FALSE)

\* limit 1: the first candidate sits at index 2, behind a corner
C25_Witness ==
    /\ op = "condense" /\ limit = 1 /\ ops = 1 /\ ret = TRUE
    /\ FirstCandidate(0, prev) = Some(2)
    /\ Len(prev) = 5 /\ path = <<prev[1], prev[2], prev[4], prev[5]>>
    /\ IsSome(FirstCandidate(0, path))

\* C26: after PathCondenser::mutate with no limit the path is in minimal
\* corner form: no interior index i remains at which the direction from point
\* i-1 to point i and the direction from point i to point i+1 both exist and
\* are equal (first_candidate(0, path) is None), and the remaining points are
\* a subsequence of the original points in their original order.
C26_MinimalCornerForm ==
    (op = "condense" /\ limit = 0) =>
        /\ \A i \in 1..(Len(path) - 2) :
            LET d1 == CardinalTo(path[i], path[i + 1])
                d2 == CardinalTo(path[i + 1], path[i + 2])
            IN ~(IsSome(d1) /\ IsSome(d2) /\ d1 = d2)
        /\ FirstCandidate(0, path) = None
        /\ IsSubseqFrom(path, 1, prev, 1)
        /\ IsSubseqFrom(path, 1, start, 1)

\* a path with two straight runs, condensed to its three corners
C26_Witness ==
    /\ op = "condense" /\ limit = 0 /\ ops = 1 /\ ctor = "from_iter"
    /\ Len(prev) = 5 /\ Len(path) = 3
    /\ path = <<prev[1], prev[3], prev[5]>>

----------------------------------------------------------------------------
(* All mutators and translate used on one ClosedPath *)

\* closed paths: rectangles, and two equal points
ClosedPaths ==
    { RectPoints(2, 2), RectPoints(1, 2), RectPoints(3, 2),
      <<Pt(1, 0), Pt(1, 0)>> }

\* the scalers a caller may have built
ClosedScalers == {[x_factor |-> 2, y_factor |-> 1], [x_factor |-> 1, y_factor |-> 3]}

\* a closed path, and one mutator of every kind ready for use
InitClosed ==
    /\ pc = "idle"
    /\ ctor = "closed" /\ result = "Ok"
    /\ path \in ClosedPaths /\ start = path
    /\ width = 0 /\ height = 0
    /\ prev = <<>> /\ op = "none" /\ ret = FALSE /\ ops = 0
    /\ limit \in {0, 1}
    /\ builder = EmptyBuilder /\ build_result = "Ok"
    /\ \E sc \in ClosedScalers : scaler = Some(sc)
    /\ bounds = None
    /\ attempt = 50
    /\ plus_bias \in {0, 100}
    /\ passes = 1
    /\ avoid = {} /\ registered = {}
    /\ pass = 0 /\ idx = 0 /\ any_mutations = FALSE
    /\ outcome = "none" /\ cand = <<>>
    /\ InitOther

NextClosed ==
    \/ Condense
    \/ Scale
    \/ \E axis \in Axes : Reflect(axis)
    \/ \E dxdy \in Deltas : Translate(dxdy)
    \/ MutateBegin
    \/ PassBegin
    \/ EdgeNotAttempted
    \/ EdgeNotCardinal
    \/ EdgeAvoided
    \/ EdgeAccept
    \/ MutateReturn

SpecClosed == InitClosed /\ [][NextClosed]_vars

\* C27: closure is preserved by every mutator: for a ClosedPath with at least
\* two points whose first and last point are equal, after any sequence of
\* UnitSegmentAdder, PathCondenser, PathScaler and PathReflector mutate calls
\* and translate calls the first and last point are still equal; the adder
\* never inserts before index 0 or after the last index and the condenser
\* never removes index 0 or the last index.
C27_ClosurePreserved ==
    (Len(start) >= 2 /\ start[1] = Last(start)) =>
        /\ Len(path) >= 2
        /\ path[1] = Last(path)
        /\ (pc \in {"pass", "edge"} \/ op \in {"add", "condense"}) =>
            (path[1] = prev[1] /\ Last(path) = Last(prev))

\* a loop moved, grown by the adder and condensed again
C27_Witness ==
    /\ pc = "idle" /\ ops = 3
    /\ op = "condense" /\ ret = TRUE
    /\ Len(prev) > Len(start)
    /\ path[1] # start[1]
    /\ path[1] = Last(path)

----------------------------------------------------------------------------
(* rect_path as a loop, checked under SpecCondenser *)

\* C28: every ClosedPath returned by rect_path is a simple loop: for every
\* width and height for which rect_path succeeds, no point occurs more than
\* once in the returned path except that the last point equals the first.
C28_RectPathSimpleLoop ==
    (ctor = "rect_path" /\ result = "Ok") => IsSelfAvoiding(start)

----------------------------------------------------------------------------
(* The avoid cache and the path, and termination of mutate, under SpecAdder *)

\* C29: whenever a UnitSegmentAdder::mutate call returns, every point of the
\* mutated path is a member of the avoid set, and the same holds at every
\* moment of the call: on entry to each pass and after each edge visit.  The
\* returned state is the idle state after an "add" with no clear_avoided
\* since (asked is emptied by clear_avoided and filled by mutate).
C29_PathWithinAvoid ==
    (\/ pc \in {"pass", "edge"}
     \/ (pc = "idle" /\ op = "add" /\ asked # {})) =>
        Points(path) \subseteq avoid

\* a mutate returned after at least one accepted bump, the cache not cleared
C29_Witness ==
    /\ pc = "idle" /\ op = "add" /\ ret = TRUE
    /\ asked # {}
    /\ accepted >= 1
    /\ Len(path) > Len(prev)
    /\ Points(path) \subseteq avoid

\* C30: UnitSegmentAdder::mutate completes without failure on every path and
\* every pass count, including an empty path and a single-point path: for a
\* path with fewer than two points it returns false and leaves the path
\* unchanged.
C30_MutateNeverFails ==
    /\ pc # "panicked"
    /\ (pc = "idle" /\ op = "add" /\ Len(prev) < 2) =>
            (ret = FALSE /\ path = prev)

====
